---- MODULE Spec2Model ----
(***************************************************************************)
(* Model of j2udev/boa: the BoaCmdBuilder chain (boabuilder.go), the boa   *)
(* Command with its usage/help closures (command.go, kept here as          *)
(* src/unnamed/part_000) and the template helpers (tmpl, sliceToCsv).      *)
(*                                                                         *)
(* Text is modelled as it is produced: a template is executed into a       *)
(* stream of tokens (text fragments, "\t", "\n"), the stream is written    *)
(* into a text/tabwriter Writer, and the Writer hands formatted lines to   *)
(* os.Stdout whenever it flushes.  Lines are TLA+ strings, so the          *)
(* rendered text can be compared with the literal expected text.           *)
(***************************************************************************)
EXTENDS Integers, Sequences, FiniteSets, TLC

\* ------------------------------------------------------------------ bounds
\* longest builder chain explored (number of builder calls after NewCmd)
MaxCalls == 3

\* ------------------------------------------------------------ text helpers
TAB == "\t"
NL == "\n"

Max(a, b) == IF a >= b THEN a ELSE b

RECURSIVE Spaces(_)
Spaces(n) == IF n <= 0 THEN "" ELSE " " \o Spaces(n - 1)

RECURSIVE JoinFrom(_, _, _)
JoinFrom(args, i, sep) ==
    IF i > Len(args) THEN ""
    ELSE IF i = Len(args) THEN args[i]
    ELSE args[i] \o sep \o JoinFrom(args, i + 1, sep)

\* strings.Join(args, ", ")
sliceToCsv_nospace(args) == JoinFrom(args, 1, ",")
sliceToCsv(args) == JoinFrom(args, 1, ", ")

\* the argument lists of a variadic call: every run of consecutive entries of
\* the list all, the empty one included
Runs(all) ==
    { SubSeq(all, i, j) : i \in 1..(Len(all) + 1), j \in 0..Len(all) }

\* -------------------------------------------------------------- input data
\* Option{Args, Desc} and Profile{Args, Opts, Desc} values the builder is fed
Opt1 == [Args |-> <<"option1", "opt1">>, Desc |-> "opt1 description"]
Opt2 == [Args |-> <<"option2">>, Desc |-> "opt2 description"]
Prof1 == [Args |-> <<"profile1", "prof1">>, Opts |-> <<"opt1", "option2">>,
          Desc |-> "prof1 description"]
Prof2 == [Args |-> <<"profile2">>, Opts |-> <<"option1">>,
          Desc |-> "prof2 description"]
OptLists == Runs(<<Opt1, Opt2>>)
ProfLists == Runs(<<Prof1, Prof2>>)
CmdUse == "options"

\* ---------------------------------------------------------- text/tabwriter
\* tabwriter.NewWriter(os.Stdout, minwidth, tabwidth, padding, ' ', 0) as the
\* two closures create it.  With a blank pad character and no flags the
\* tabwidth plays no part; a column is max(minwidth, widest cell + padding).
UsageTabWidth == 8
HelpTabWidth == 3

\* The Writer holds the text written since its last flush (buf, as tokens:
\* text fragments, "\t", "\n") and has handed the lines in out to the
\* underlying writer, os.Stdout.
NewWriter(pad) == [minwidth |-> pad, padding |-> pad, buf |-> <<>>, out |-> <<>>]

\* the positions lo..hi of toks that hold the separator sep, in order
SepPos(toks, sep, lo, hi) ==
    SelectSeq([i \in 1..(hi - lo + 1) |-> lo + i - 1], LAMBDA i : toks[i] = sep)

RECURSIVE Concat(_, _, _)
Concat(toks, lo, hi) ==
    IF lo > hi THEN "" ELSE toks[lo] \o Concat(toks, lo + 1, hi)

\* the cells of the line made of the tokens lo..hi: all but the last are
\* tab-terminated, the last is the trailing cell that takes no part in the
\* column layout
CellsAt(toks, lo, hi, T) ==
    [k \in 1..(Len(T) + 1) |->
        Concat(toks, IF k = 1 THEN lo ELSE T[k - 1] + 1,
                     IF k = Len(T) + 1 THEN hi ELSE T[k] - 1)]
Cells(toks, lo, hi) == CellsAt(toks, lo, hi, SepPos(toks, TAB, lo, hi))

\* the newline-terminated lines of toks, each as its cells; N holds the
\* positions of the newlines
LinesAt(toks, N) ==
    [k \in 1..Len(N) |->
        Cells(toks, IF k = 1 THEN 1 ELSE N[k - 1] + 1, N[k] - 1)]
CompleteLines(toks) == LinesAt(toks, SepPos(toks, NL, 1, Len(toks)))

\* number of tab-terminated cells of a buffered line
NTerm(ln) == Len(ln) - 1

\* first and last line of the column block of column j that holds line i:
\* the longest run of consecutive lines with a tab-terminated cell in column j
RECURSIVE BlockLo(_, _, _)
BlockLo(lines, i, j) ==
    IF i > 1 /\ NTerm(lines[i - 1]) >= j THEN BlockLo(lines, i - 1, j) ELSE i
RECURSIVE BlockHi(_, _, _)
BlockHi(lines, i, j) ==
    IF i < Len(lines) /\ NTerm(lines[i + 1]) >= j THEN BlockHi(lines, i + 1, j)
    ELSE i

RECURSIVE MaxCellWidth(_, _, _, _)
MaxCellWidth(lines, lo, hi, j) ==
    IF lo > hi THEN 0
    ELSE Max(Len(lines[lo][j]), MaxCellWidth(lines, lo + 1, hi, j))

\* Writer.format: width of column j in the block around line i
ColWidth(wr, lines, i, j) ==
    Max(wr.minwidth,
        MaxCellWidth(lines, BlockLo(lines, i, j), BlockHi(lines, i, j), j)
            + wr.padding)

\* Writer.writeLines for one line: every tab-terminated cell is padded on the
\* right to the width of its column, the trailing cell is written as it is
RECURSIVE WriteLine(_, _, _, _)
WriteLine(wr, lines, i, j) ==
    IF j > Len(lines[i]) THEN ""
    ELSE IF j = Len(lines[i]) THEN lines[i][j]
    ELSE lines[i][j]
            \o Spaces(ColWidth(wr, lines, i, j) - Len(lines[i][j]))
            \o WriteLine(wr, lines, i, j + 1)

\* the text a flush writes for the buffered complete lines
FormatLines(wr, lines) ==
    [i \in 1..Len(lines) |-> WriteLine(wr, lines, i, 1)]

\* Writer.Write.  A tab terminates a cell and a newline a line; a newline
\* that ends a line of a single cell flushes everything buffered up to and
\* including that line.  What follows the last such newline stays in buf
\* until a later Write or Flush.
LastFlush_never(lines) == 0
LastFlush(lines) ==
    LET F == { k \in 1..Len(lines) : Len(lines[k]) = 1 }
    IN IF F = {} THEN 0 ELSE CHOOSE k \in F : \A m \in F : m <= k
Flush(wr, all, N, lines, n) ==
    [wr EXCEPT !.out = wr.out \o FormatLines(wr, SubSeq(lines, 1, n)),
               !.buf = IF n = 0 THEN all ELSE SubSeq(all, N[n] + 1, Len(all))]
WriteLines(wr, all, N, lines) == Flush(wr, all, N, lines, LastFlush(lines))
WriteBuf(wr, all, N) == WriteLines(wr, all, N, LinesAt(all, N))
Write(wr, toks) ==
    WriteBuf(wr, wr.buf \o toks, SepPos(wr.buf \o toks, NL, 1, Len(wr.buf \o toks)))

\* nothing is held back in the Writer
Drained(wr) == wr.buf = <<>>

\* ------------------------------------------------ cobra.Command, as needed
\* The fields of the one underlying cobra.Command that the builder sets and
\* the template reads.  flags is the local FlagSet (cmd.Flags()) and pflags
\* the persistent one (cmd.PersistentFlags()), both in registration order;
\* usageFunc/helpFunc hold the closure installed by SetUsageFunc/SetHelpFunc;
\* Args is the PositionalArgs validator as the list of validators MatchAll
\* combines, empty for nil.
NoFunc == [installed |-> FALSE]
NewCobraCmd(use) ==
    [Use |-> use, Run |-> FALSE, flags |-> <<>>,
     usageFunc |-> NoFunc, helpFunc |-> NoFunc,
     Aliases |-> <<>>, Short |-> "", Long |-> "", ValidArgs |-> <<>>,
     Args |-> <<>>, Hidden |-> FALSE, pflags |-> <<>>]

\* cobra: Runnable, Name, HasAvailableFlags/HasAvailableLocalFlags, UseLine
Runnable(cc) == cc.Run
Name(cc) == cc.Use
AvailableFlags(cc) == SelectSeq(cc.flags, LAMBDA f : ~f.hidden)
HasAvailableFlags(cc) == AvailableFlags(cc) # <<>>
UseLine(cc) ==
    IF HasAvailableFlags(cc) THEN cc.Use \o " [flags]" ELSE cc.Use

\* cobra InitDefaultHelpFlag: registers -h/--help unless a flag named help
\* is there already
HasFlag(cc, name) == \E i \in 1..Len(cc.flags) : cc.flags[i].name = name
InitDefaultHelpFlag(cc) ==
    IF HasFlag(cc, "help") THEN cc
    ELSE [cc EXCEPT !.flags = Append(cc.flags,
            [name |-> "help", shorthand |-> "h",
             usage |-> "help for " \o Name(cc), hidden |-> FALSE,
             value |-> FALSE, deprecated |-> "", shorthandDeprecated |-> ""])]

\* pflag FlagUsages for bool flags: "  -s, --name" or "      --name", padded
\* to the longest one, three blanks, the usage text; one line per flag
FlagLeft(f) ==
    IF f.shorthand # "" THEN "  -" \o f.shorthand \o ", --" \o f.name
    ELSE "      --" \o f.name
RECURSIVE MaxLeft(_, _)
MaxLeft(fs, i) ==
    IF i > Len(fs) THEN 0 ELSE Max(Len(FlagLeft(fs[i])), MaxLeft(fs, i + 1))
FlagUsages(cc) ==
    LET fs == AvailableFlags(cc)
    IN [i \in 1..Len(fs) |->
          FlagLeft(fs[i]) \o Spaces(MaxLeft(fs, 1) - Len(FlagLeft(fs[i])) + 3)
                          \o fs[i].usage]

\* ------------------------------------------------------ templates as data
\* A template text is a value: whether template.Parse accepts it, and the
\* nodes Execute walks in order.  A node is literal text or one of the
\* actions of OptionsTemplate; "noField" is an action naming a field the
\* data does not have, which Parse accepts and Execute fails on.
Text(toks) == [k |-> "text", toks |-> toks]
Node(k) == [k |-> k, toks |-> <<>>]

\* Command.HasOptions
HasOptions_never(c) == FALSE
HasOptions(c) == ~(c.Opts = <<>> \/ Len(c.Opts) = 0)
HasProfiles(c) == Len(c.Profiles) > 0

\* {{range .Opts}}\n  {{.Args | sliceToCsv}}\t{{.Desc}}{{end}}
RECURSIVE OptionRows(_, _)
OptionRows(opts, i) ==
    IF i > Len(opts) THEN <<>>
    ELSE <<NL, "  " \o sliceToCsv(opts[i].Args), TAB, opts[i].Desc>>
            \o OptionRows(opts, i + 1)

\* the rows of the Profiles section: the alias/description row and below it
\* the continuation line with the profile's option references
ContinuationLabel == "    ↳ Options:"
RECURSIVE ProfileRows(_, _)
ProfileRows(profs, i) ==
    IF i > Len(profs) THEN <<>>
    ELSE <<NL, "  " \o sliceToCsv(profs[i].Args), TAB, profs[i].Desc,
           NL, ContinuationLabel, TAB, sliceToCsv(profs[i].Opts)>>
            \o ProfileRows(profs, i + 1)

\* the lines of a text as tokens: l1 "\n" l2 ... ln
RECURSIVE LinesToToks(_, _)
LinesToToks(ls, i) ==
    IF i > Len(ls) THEN <<>>
    ELSE IF i = Len(ls) THEN <<ls[i]>>
    ELSE <<ls[i], NL>> \o LinesToToks(ls, i + 1)

\* text/template evaluating one node against the data c (the boa Command
\* value the closure holds) and cc (the cobra.Command it points to)
EvalNode(n, c, cc) ==
    CASE n.k = "text" -> [err |-> FALSE, toks |-> n.toks]
      [] n.k = "useLine" ->
            [err |-> FALSE,
             toks |-> IF Runnable(cc) THEN <<NL, "  " \o UseLine(cc)>> ELSE <<>>]
      [] n.k = "optSuffix" ->
            [err |-> FALSE,
             toks |-> IF HasOptions(c) THEN <<" [options]">> ELSE <<>>]
      [] n.k = "optionRows" ->
            [err |-> FALSE, toks |-> OptionRows(c.Opts, 1)]
      [] n.k = "options" ->
            [err |-> FALSE,
             toks |-> IF HasOptions(c)
                      THEN <<NL, NL, "Options:">> \o OptionRows(c.Opts, 1)
                      ELSE <<>>]
      [] n.k = "profiles" ->
            [err |-> FALSE,
             toks |-> IF HasProfiles(c)
                      THEN <<NL, NL, "Profiles:">> \o ProfileRows(c.Profiles, 1)
                      ELSE <<>>]
      [] n.k = "flags" ->
            [err |-> FALSE,
             toks |-> IF HasAvailableFlags(cc)
                      THEN <<NL, NL, "Flags:", NL>> \o LinesToToks(FlagUsages(cc), 1)
                      ELSE <<>>]
      [] OTHER -> [err |-> TRUE, toks |-> <<>>]

\* Command.OptionsTemplate: the template text, named here by its first
\* action.  Its sections for subcommands, aliases, examples, inherited flags
\* and help topics test fields no operation of this model sets, so they
\* render nothing and have no node in the parsed tree.
OptionsTemplate == "Usage:{{if .Runnable}} ... {{end}}\n"

\* template texts a caller may hand to WithUsageTemplate/WithHelpTemplate:
\* one Parse rejects, one Parse accepts and Execute fails on, and a well
\* formed one that ends inside a tabbed row
UnparsableTemplate == "{{.Use"
NoFieldTemplate == "Usage:\n{{.NoSuchField}}\n"
RowsTemplate == "Options:{{range .Opts}}\n  {{.Args | sliceToCsv}}\t{{.Desc}}{{end}}"
CustomTemplates == {UnparsableTemplate, NoFieldTemplate, RowsTemplate}

\* template.Parse: whether the text is accepted, and the nodes of its tree
Parse(text) ==
    CASE text = OptionsTemplate ->
            [parses |-> TRUE,
             nodes |-> <<Text(<<"Usage:">>), Node("useLine"), Node("optSuffix"),
                         Node("options"), Node("profiles"), Node("flags"),
                         Text(<<NL>>)>>]
      [] text = NoFieldTemplate ->
            [parses |-> TRUE,
             nodes |-> <<Text(<<"Usage:", NL>>), Node("noField"), Text(<<NL>>)>>]
      [] text = RowsTemplate ->
            [parses |-> TRUE,
             nodes |-> <<Text(<<"Options:">>), Node("optionRows")>>]
      [] OTHER -> [parses |-> FALSE, nodes |-> <<>>]

\* Template.Execute: the nodes are written to w one after the other; the
\* first failing node ends the execution with what was written before it
RECURSIVE ExecToks(_, _, _, _)
ExecToks(nodes, i, c, cc) ==
    IF i > Len(nodes) THEN [err |-> FALSE, toks |-> <<>>]
    ELSE LET r == EvalNode(nodes[i], c, cc)
         IN IF r.err THEN [err |-> TRUE, toks |-> <<>>]
            ELSE LET rest == ExecToks(nodes, i + 1, c, cc)
                 IN [err |-> rest.err, toks |-> r.toks \o rest.toks]
Execute(wr, nodes, c, cc) ==
    LET r == ExecToks(nodes, 1, c, cc)
    IN [err |-> r.err, w |-> Write(wr, r.toks)]

\* tmpl(w, text, data): template.Must(t.Parse(text)) panics on a text Parse
\* rejects; otherwise the result of Execute is returned
tmpl(wr, text, c, cc) ==
    LET t == Parse(text)
    IN IF ~t.parses THEN [panic |-> TRUE, err |-> FALSE, w |-> wr]
       ELSE LET r == Execute(wr, t.nodes, c, cc)
            IN [panic |-> FALSE, err |-> r.err, w |-> r.w]

\* ------------------------------------------------------------------ state
\*   b       the BoaCmdBuilder: b.cobra is the one cobra.Command both the
\*           embedded CobraCmdBuilder and the boa Command point to, b.cmd
\*           holds the boa Command's own fields (Opts, Profiles)
\*   stdout  the lines the last operation wrote to os.Stdout
\*   stderr  the lines the last operation printed with cmd.PrintErrln
\*   wr      the tabwriter of the last operation as the call left it (a
\*           builder call makes none: NewWriter(0))
\*   crashed a panic left the call, or log.Fatal ended the process
\*   calls   builder calls made so far
\*   hist    what the last operation was (op), how many times in a row the
\*           same render call was made (n) and what the call before it had
\*           written (prev)
\*   files   the file system a ViperCfgBuilder looks at (path |-> what is
\*           there); no other builder touches it
VARIABLES b, stdout, stderr, wr, crashed, calls, hist, files

vars == <<b, stdout, stderr, wr, crashed, calls, hist, files>>

\* the file system of a program that reads no file
NoFiles == <<>>

Hist(op, n, prev) == [op |-> op, n |-> n, prev |-> prev]

\* NewCmd(use)
NewCmd(use) ==
    [cobra |-> NewCobraCmd(use), cmd |-> [Opts |-> <<>>, Profiles |-> <<>>]]

Init ==
    /\ b = NewCmd(CmdUse)
    /\ stdout = <<>>
    /\ stderr = <<>>
    /\ wr = NewWriter(0)
    /\ crashed = FALSE
    /\ calls = 0
    /\ hist = [op |-> "NewCmd", n |-> 0, prev |-> <<>>]
    /\ files = NoFiles

\* ---------------------------------------------------------- builder calls
\* Each builder method as a function from the builder to the builder.

\* BoaCmdBuilder.WithOptions: b.cmd.Opts = append(b.cmd.Opts, opts...)
WithOptions_shared(bb, opts) ==
    [bb EXCEPT !.cmd.Opts = @ \o opts,
               !.cobra.usageFunc =
                   IF @.installed THEN [@ EXCEPT !.c.Opts = @ \o opts] ELSE @,
               !.cobra.helpFunc =
                   IF @.installed THEN [@ EXCEPT !.c.Opts = @ \o opts] ELSE @]
WithOptions(bb, opts) == [bb EXCEPT !.cmd.Opts = @ \o opts]

\* BoaCmdBuilder.WithProfiles
WithProfiles(bb, profs) == [bb EXCEPT !.cmd.Profiles = @ \o profs]

\* Command.UsageFunc / Command.HelpFunc have a value receiver: the closure
\* holds the Command as it is when the method is called (its Opts and
\* Profiles slices) together with the pointer to the cobra.Command
UsageFunc_helppad(c, template) ==
    [installed |-> TRUE, template |-> template, c |-> c, pad |-> HelpTabWidth]
UsageFunc(c, template) ==
    [installed |-> TRUE, template |-> template, c |-> c, pad |-> UsageTabWidth]
HelpFunc_usagepad(c, template) ==
    [installed |-> TRUE, template |-> template, c |-> c, pad |-> UsageTabWidth]
HelpFunc(c, template) ==
    [installed |-> TRUE, template |-> template, c |-> c, pad |-> HelpTabWidth]

\* BoaCmdBuilder.WithUsageTemplate / WithHelpTemplate
WithUsageTemplate(bb, template) ==
    [bb EXCEPT !.cobra.usageFunc = UsageFunc(bb.cmd, template)]
WithHelpTemplate(bb, template) ==
    [bb EXCEPT !.cobra.helpFunc = HelpFunc(bb.cmd, template)]

\* BoaCmdBuilder.WithOptionsTemplate
WithOptionsTemplate(bb) ==
    WithHelpTemplate(WithUsageTemplate(bb, OptionsTemplate), OptionsTemplate)

\* BoaCmdBuilder.WithOptionsAndTemplate
WithOptionsAndTemplate_templatefirst(bb, opts) ==
    WithOptions(WithOptionsTemplate(bb), opts)
WithOptionsAndTemplate(bb, opts) ==
    WithOptionsTemplate(WithOptions(bb, opts))

\* CobraCmdBuilder.WithNoOp: WithRunFunc of an empty function
WithNoOp(bb) == [bb EXCEPT !.cobra.Run = TRUE]

BuilderStep(op, bb) ==
    /\ ~crashed
    /\ calls < MaxCalls
    /\ b' = bb
    /\ calls' = calls + 1
    /\ hist' = Hist(op, 0, <<>>)
    /\ stdout' = <<>>
    /\ stderr' = <<>>
    /\ wr' = NewWriter(0)
    /\ UNCHANGED <<crashed, files>>

CallWithOptions ==
    \E opts \in OptLists : BuilderStep("WithOptions", WithOptions(b, opts))
CallWithProfiles ==
    \E profs \in ProfLists :
        BuilderStep("WithProfiles", WithProfiles(b, profs))
CallWithUsageTemplate ==
    \E t \in CustomTemplates :
        BuilderStep("WithUsageTemplate", WithUsageTemplate(b, t))
CallWithHelpTemplate ==
    \E t \in CustomTemplates :
        BuilderStep("WithHelpTemplate", WithHelpTemplate(b, t))
CallWithOptionsTemplate ==
    BuilderStep("WithOptionsTemplate", WithOptionsTemplate(b))
CallWithOptionsAndTemplate ==
    \E opts \in OptLists :
        BuilderStep("WithOptionsAndTemplate", WithOptionsAndTemplate(b, opts))
CallWithNoOp == BuilderStep("WithNoOp", WithNoOp(b))

\* ----------------------------------------------------------- render calls
\* The closure UsageFunc/HelpFunc returns, called for the cobra.Command cc:
\* a new tabwriter on os.Stdout, tmpl into it, the error printed with
\* cmd.PrintErrln.  The result is everything the call leaves behind.
RunClosure_keepswriter(f, cc) ==
    LET r == tmpl([NewWriter(f.pad) EXCEPT !.buf = wr.buf], f.template, f.c, cc)
    IN [panic |-> r.panic, err |-> r.err, w |-> r.w,
        stdout |-> r.w.out,
        stderr |-> IF r.err THEN <<"template: can't evaluate field">> ELSE <<>>]
RunClosure(f, cc) ==
    LET r == tmpl(NewWriter(f.pad), f.template, f.c, cc)
    IN [panic |-> r.panic, err |-> r.err, w |-> r.w,
        stdout |-> r.w.out,
        stderr |-> IF r.err THEN <<"template: can't evaluate field">> ELSE <<>>]

\* The closure called with the cobra.Command cmd as its argument: the
\* template is executed on the captured Command, whose cobra.Command is own;
\* cmd is used for cmd.PrintErrln only, which prints to the one os.Stderr
CallClosure_passed(f, cmd, own) == RunClosure(f, cmd)
CallClosure(f, cmd, own) == RunClosure(f, own)

\* another cobra.Command, runnable and with its help flag registered, for
\* which a caller invokes the functions installed on the command
OtherCmd == InitDefaultHelpFlag([NewCobraCmd("other") EXCEPT !.Run = TRUE])

\* the same render call as the one before, with nothing in between
Again(op) == IF hist.op = op THEN hist.n + 1 ELSE 1

RenderStep(op, f, cc) ==
    \E r \in {RunClosure(f, cc)} :
       /\ stdout' = r.stdout
       /\ stderr' = r.stderr
       /\ wr' = r.w
       /\ crashed' = r.panic
       /\ hist' = Hist(op, IF Again(op) > 2 THEN 2 ELSE Again(op),
                       IF hist.op = op THEN stdout ELSE <<>>)
       /\ UNCHANGED <<calls, files>>

\* cmd.Usage(): the installed usage function is called for the command
Usage_registersflag ==
    /\ ~crashed
    /\ b.cobra.usageFunc.installed
    /\ RenderStep("Usage", b.cobra.usageFunc, b.cobra)
    /\ b' = [b EXCEPT !.cobra = InitDefaultHelpFlag(b.cobra)]
Usage ==
    /\ ~crashed
    /\ b.cobra.usageFunc.installed
    /\ RenderStep("Usage", b.cobra.usageFunc, b.cobra)
    /\ UNCHANGED b

\* cmd.Help(): the installed help function is called for the command
Help ==
    /\ ~crashed
    /\ b.cobra.helpFunc.installed
    /\ RenderStep("Help", b.cobra.helpFunc, b.cobra)
    /\ UNCHANGED b

\* cmd.Execute() with the argument -h: cobra registers the default help flag
\* and then calls the help function
ExecuteHelp ==
    /\ ~crashed
    /\ b.cobra.helpFunc.installed
    /\ b' = [b EXCEPT !.cobra = InitDefaultHelpFlag(b.cobra)]
    /\ RenderStep("Execute", b.cobra.helpFunc, InitDefaultHelpFlag(b.cobra))

Next ==
    \/ CallWithOptions
    \/ CallWithProfiles
    \/ CallWithUsageTemplate
    \/ CallWithHelpTemplate
    \/ CallWithOptionsTemplate
    \/ CallWithOptionsAndTemplate
    \/ CallWithNoOp
    \/ Usage
    \/ Help
    \/ ExecuteHelp
    \* cmd.UsageFunc()(other) / cmd.HelpFunc()(other, args): the installed
    \* function is invoked for another command
    \/ \E fn \in {"usageFunc", "helpFunc"} :
          /\ ~crashed
          /\ b.cobra[fn].installed
          /\ \E r \in {CallClosure(b.cobra[fn], OtherCmd, b.cobra)} :
                /\ stdout' = r.stdout
                /\ stderr' = r.stderr
                /\ wr' = r.w
                /\ crashed' = r.panic
          /\ hist' = Hist(fn, 1, <<>>)
          /\ UNCHANGED <<b, calls, files>>

Spec == Init /\ [][Next]_vars

\* ================================================================ claims
\* helpers for reading the rendered text
Lines(t) == { t[i] : i \in 1..Len(t) }
IndexOf(t, line) == CHOOSE i \in 1..Len(t) : t[i] = line
\* the lines of t below the header line up to the next empty line or the end
SectionEnd(t, from) ==
    LET E == { i \in (from + 1)..Len(t) : t[i] = "" }
    IN IF E = {} THEN Len(t) ELSE (CHOOSE i \in E : \A m \in E : i <= m) - 1
Section(t, header) ==
    IF header \notin Lines(t) THEN <<>>
    ELSE SubSeq(t, IndexOf(t, header) + 1, SectionEnd(t, IndexOf(t, header)))

RenderOps == {"Usage", "Help", "Execute"}
\* the closure the last render call ran, and the Command value it renders
Rendered == IF hist.op = "Usage" THEN b.cobra.usageFunc ELSE b.cobra.helpFunc
\* the last operation rendered the options template without an error
RenderedOptionsTemplate ==
    /\ hist.op \in RenderOps
    /\ Rendered.template = OptionsTemplate
    /\ ~crashed /\ stderr = <<>>

\* the usage line (or, for a command that is not runnable, the "Usage:"
\* line) with the suffix the options template appends
SuffixedUsageLines ==
    {"Usage: [options]", "  options [options]", "  options [flags] [options]"}

\* C1: a Command rendered by the options template shows the "Options:" header
\* and the " [options]" suffix of the usage line exactly when its Opts
\* sequence is not empty; with an empty Opts sequence it shows neither.
C1_OptionsHeaderAndSuffix ==
    RenderedOptionsTemplate =>
        IF Len(Rendered.c.Opts) = 0
        THEN "Options:" \notin Lines(stdout)
             /\ Lines(stdout) \cap SuffixedUsageLines = {}
        ELSE "Options:" \in Lines(stdout)
             /\ Lines(stdout) \cap SuffixedUsageLines # {}
C1_Witness ==
    /\ RenderedOptionsTemplate
    /\ Len(Rendered.c.Opts) = 2
    /\ "  options [flags] [options]" \in Lines(stdout)

\* the padding of the tabwriter the last render call used
RenderPad == IF hist.op = "Usage" THEN 8 ELSE 3
\* more blanks than any row of the model needs between its two columns
MaxGap == 24
MaxOf(S) == CHOOSE m \in S : \A n \in S : n <= m

\* first column and second column of the rows of the two sections
OptionCells(opts) ==
    [i \in 1..Len(opts) |->
        <<"  " \o sliceToCsv(opts[i].Args), opts[i].Desc>>]
ProfileCells(profs) ==
    [i \in 1..(2 * Len(profs)) |->
        IF i % 2 = 1
        THEN <<"  " \o sliceToCsv(profs[(i + 1) \div 2].Args),
               profs[(i + 1) \div 2].Desc>>
        ELSE <<"    ↳ Options:", sliceToCsv(profs[i \div 2].Opts)>>]

\* a row made of the two cells with k blanks between them
Row(cells, k) == cells[1] \o Spaces(k) \o cells[2]
IsRowOf(line, cells) == \E k \in 1..MaxGap : line = Row(cells, k)

\* C2: the Options section of a Command with a non-empty Opts sequence has
\* exactly one row per declared Option, in the order the options were added.
C2_OneRowPerOption ==
    (RenderedOptionsTemplate /\ Len(Rendered.c.Opts) > 0) =>
        LET sec == Section(stdout, "Options:")
            cells == OptionCells(Rendered.c.Opts)
        IN /\ Len(sec) = Len(cells)
           /\ \A i \in 1..Len(cells) : IsRowOf(sec[i], cells[i])

\* C3: below the alias/description row of every Profile the Profiles section
\* has one continuation line "↳ Options:" followed by the profile's Opts
\* joined with ", ", in the order declared on the Profile.
C3_ProfileContinuation ==
    (RenderedOptionsTemplate /\ Len(Rendered.c.Profiles) > 0) =>
        LET sec == Section(stdout, "Profiles:")
            cells == ProfileCells(Rendered.c.Profiles)
        IN /\ Len(sec) = Len(cells)
           /\ \A i \in 1..Len(cells) : IsRowOf(sec[i], cells[i])

\* C4: within one rendered section the second column starts at the same
\* offset in every row, the width of the longest first-column cell of the
\* section plus the padding (3 for help, 8 for usage); shorter first-column
\* cells are filled up with blanks.
Aligned(sec, cells, pad) ==
    /\ Len(sec) <= Len(cells)
    /\ \A i \in 1..Len(sec) :
          sec[i] = Row(cells[i],
                       MaxOf({ Len(cells[m][1]) : m \in 1..Len(cells) }) + pad
                           - Len(cells[i][1]))
C4_ColumnAlignment ==
    RenderedOptionsTemplate =>
        /\ Aligned(Section(stdout, "Options:"), OptionCells(Rendered.c.Opts),
                   RenderPad)
        /\ Aligned(Section(stdout, "Profiles:"),
                   ProfileCells(Rendered.c.Profiles), RenderPad)
C4_Witness ==
    /\ RenderedOptionsTemplate
    /\ hist.op = "Usage"
    /\ Len(Section(stdout, "Options:")) = 2
    /\ Len(Section(stdout, "Profiles:")) = 2
    /\ "  option2              opt2 description" \in Lines(stdout)

\* the command of the end-to-end scenarios: runnable, the options template
\* installed for the two Options, rendered by Execute with the help flag
ScenarioRendered(profs) ==
    /\ hist.op = "Execute"
    /\ ~crashed
    /\ b.cobra.Run
    /\ b.cobra.helpFunc.template = OptionsTemplate
    /\ b.cobra.helpFunc.c = [Opts |-> <<Opt1, Opt2>>, Profiles |-> profs]

\* C5: the runnable command "options" with the two Options, the options
\* template and no Profiles, invoked with the help flag, renders exactly the
\* Usage line, the Options section with its two rows and the Flags section.
C5_OptionsScenario ==
    ScenarioRendered(<<>>) =>
        stdout = <<"Usage:",
                   "  options [flags] [options]",
                   "",
                   "Options:",
                   "  option1, opt1   opt1 description",
                   "  option2         opt2 description",
                   "",
                   "Flags:",
                   "  -h, --help   help for options">>
C5_Witness == ScenarioRendered(<<>>) /\ Len(stdout) = 9

\* C6: with the two Profiles added the same command renders a Profiles
\* section after the Options section and before the Flags section, each
\* profile's row directly followed by its continuation line, in declared
\* order.
C6_ProfilesScenario ==
    ScenarioRendered(<<Prof1, Prof2>>) =>
        stdout = <<"Usage:",
                   "  options [flags] [options]",
                   "",
                   "Options:",
                   "  option1, opt1   opt1 description",
                   "  option2         opt2 description",
                   "",
                   "Profiles:",
                   "  profile1, prof1   prof1 description",
                   "    ↳ Options:      opt1, option2",
                   "  profile2          prof2 description",
                   "    ↳ Options:      option1",
                   "",
                   "Flags:",
                   "  -h, --help   help for options">>
C6_Witness == ScenarioRendered(<<Prof1, Prof2>>) /\ Len(stdout) = 15

\* C7: the same installed usage or help function called twice in a row, with
\* no builder call in between, writes the same text both times.
C7_RenderIdempotent == hist.n = 2 => stdout = hist.prev
C7_Witness ==
    /\ hist.n = 2
    /\ hist.op = "Help"
    /\ "Options:" \in Lines(stdout)
    /\ ~Drained(wr)

\* C8: a render call with a malformed template text, whether Parse or
\* Execute rejects it, reports the error on the error channel and returns;
\* it never ends the process.
C8_TemplateErrorReported ==
    (hist.op \in RenderOps
        /\ Rendered.template \in {UnparsableTemplate, NoFieldTemplate}) =>
        (~crashed /\ stderr # <<>>)

\* C9: a call of the usage or help function leaves the Command as it was:
\* Opts, Profiles and the fields of the underlying command are unchanged,
\* whether the call succeeds or fails (Execute registers its help flag
\* before it makes the call; everything else is unchanged there too).
C9_RenderKeepsCommand ==
    [][/\ hist'.op \in {"Usage", "Help"} => b' = b
       /\ hist'.op = "Execute" =>
              /\ b'.cmd = b.cmd
              /\ [b'.cobra EXCEPT !.flags = b.cobra.flags] = b.cobra]_vars
C9_Witness ==
    /\ hist.op \in {"Usage", "Help"}
    /\ stderr # <<>>
    /\ Len(b.cmd.Opts) > 0
    /\ Len(b.cmd.Profiles) > 0

\* C10: WithOptionsAndTemplate(opts...) leaves the builder as WithOptions(opts...)
\* followed by WithOptionsTemplate() leaves it: the same Opts on the Command
\* and usage and help functions that render the same text.
C10_OptionsAndTemplateEquivalent ==
    [][\A opts \in OptLists :
          (hist'.op = "WithOptionsAndTemplate"
              /\ b'.cmd.Opts = b.cmd.Opts \o opts) =>
            LET two == WithOptionsTemplate(WithOptions(b, opts))
            IN /\ b'.cmd = two.cmd
               /\ b'.cobra = two.cobra
               /\ RunClosure(b'.cobra.usageFunc, b'.cobra).stdout
                    = RunClosure(two.cobra.usageFunc, two.cobra).stdout
               /\ RunClosure(b'.cobra.helpFunc, b'.cobra).stdout
                    = RunClosure(two.cobra.helpFunc, two.cobra).stdout]_vars
C10_Witness ==
    /\ hist.op = "WithOptionsAndTemplate"
    /\ b.cmd.Opts = <<Opt2, Opt1, Opt2>>
    /\ b.cobra.helpFunc.c.Opts = b.cmd.Opts

\* ====================================================== CobraCmdBuilder
\* The setters of CobraCmdBuilder on the one cobra.Command it points to.
\* Under SpecCobra b is the CobraCmdBuilder ([cobra |-> the command]),
\* crashed says that a setter panicked, hist holds the last call (op) and
\* the argument it was given (arg).

\* pflag: the Flag FlagSet.VarPF creates
Flag(name, shorthand, value, usage) ==
    [name |-> name, shorthand |-> shorthand, usage |-> usage,
     hidden |-> FALSE, value |-> value, deprecated |-> "",
     shorthandDeprecated |-> ""]

\* pflag FlagSet.Lookup: the position of the flag named name, 0 for nil
Lookup(fs, name) ==
    IF \E i \in 1..Len(fs) : fs[i].name = name
    THEN CHOOSE i \in 1..Len(fs) : fs[i].name = name
    ELSE 0

\* pflag FlagSet.AddFlag: panics when the name is defined already ("flag
\* redefined") or the shorthand is in use; otherwise adds the flag
AddFlag(fs, f) ==
    IF \/ Lookup(fs, f.name) # 0
       \/ /\ f.shorthand # ""
          /\ \E i \in 1..Len(fs) : fs[i].shorthand = f.shorthand
    THEN [panic |-> TRUE, fs |-> fs]
    ELSE [panic |-> FALSE, fs |-> Append(fs, f)]

\* pflag FlagSet.MarkHidden
MarkHidden(fs, name) ==
    IF Lookup(fs, name) = 0 THEN [err |-> TRUE, fs |-> fs]
    ELSE [err |-> FALSE, fs |-> [fs EXCEPT ![Lookup(fs, name)].hidden = TRUE]]

\* pflag FlagSet.MarkDeprecated: an error for an unknown flag and for an
\* empty usageMessage; otherwise sets Deprecated and Hidden
MarkDeprecated(fs, name, usageMessage) ==
    IF Lookup(fs, name) = 0 \/ usageMessage = ""
    THEN [err |-> TRUE, fs |-> fs]
    ELSE [err |-> FALSE,
          fs |-> [fs EXCEPT ![Lookup(fs, name)].deprecated = usageMessage,
                            ![Lookup(fs, name)].hidden = TRUE]]

\* pflag FlagSet.MarkShorthandDeprecated
MarkShorthandDeprecated(fs, name, usageMessage) ==
    IF Lookup(fs, name) = 0 \/ usageMessage = ""
    THEN [err |-> TRUE, fs |-> fs]
    ELSE [err |-> FALSE,
          fs |-> [fs EXCEPT
                    ![Lookup(fs, name)].shorthandDeprecated = usageMessage]]

\* what a builder call leaves: the builder, and whether the call panicked
Returned(bb) == [panic |-> FALSE, b |-> bb]
Panicked(bb) == [panic |-> TRUE, b |-> bb]

\* field setters: b.cmd.<Field> = value; return b
WithAliases(bb, aliases) == Returned([bb EXCEPT !.cobra.Aliases = aliases])
WithShortDescription(bb, short) == Returned([bb EXCEPT !.cobra.Short = short])
WithLongDescription_short(bb, long) ==
    Returned([bb EXCEPT !.cobra.Short = long])
WithLongDescription(bb, long) == Returned([bb EXCEPT !.cobra.Long = long])
\* b.cmd.ValidArgs = append(b.cmd.ValidArgs, validArgs...)
WithValidArgs_overwrites(bb, validArgs) ==
    Returned([bb EXCEPT !.cobra.ValidArgs = validArgs])
WithValidArgs(bb, validArgs) ==
    Returned([bb EXCEPT !.cobra.ValidArgs = @ \o validArgs])
WithArgs(bb, args) == Returned([bb EXCEPT !.cobra.Args = args])
Hidden(bb) == Returned([bb EXCEPT !.cobra.Hidden = TRUE])
WithRunFunc(bb) == Returned(WithNoOp(bb))

\* flag setters: b.cmd.Flags().Bool / BoolP, b.cmd.PersistentFlags().Bool
WithFlag(bb, r) ==
    IF r.panic THEN Panicked(bb) ELSE Returned([bb EXCEPT !.cobra.flags = r.fs])
WithPersistentFlag(bb, r) ==
    IF r.panic THEN Panicked(bb)
    ELSE Returned([bb EXCEPT !.cobra.pflags = r.fs])
WithBoolFlag(bb, name, value, usage) ==
    WithFlag(bb, AddFlag(bb.cobra.flags, Flag(name, "", value, usage)))
WithBoolPFlag(bb, name, shorthand, value, usage) ==
    WithFlag(bb, AddFlag(bb.cobra.flags, Flag(name, shorthand, value, usage)))
WithBoolPersistentFlag(bb, name, value, usage) ==
    WithPersistentFlag(bb,
        AddFlag(bb.cobra.pflags, Flag(name, "", value, usage)))

\* Mark*: err := b.cmd.Flags().Mark...(name); if err != nil { panic(err) }
MarkFlag(bb, r) ==
    IF r.err THEN Panicked(bb) ELSE Returned([bb EXCEPT !.cobra.flags = r.fs])
MarkPersistentFlag(bb, r) ==
    IF r.err THEN Panicked(bb)
    ELSE Returned([bb EXCEPT !.cobra.pflags = r.fs])
MarkFlagHidden_ignoreserror(bb, name) ==
    Returned([bb EXCEPT !.cobra.flags = MarkHidden(bb.cobra.flags, name).fs])
MarkFlagHidden(bb, name) == MarkFlag(bb, MarkHidden(bb.cobra.flags, name))
MarkFlagDeprecated(bb, name, usage) ==
    MarkFlag(bb, MarkDeprecated(bb.cobra.flags, name, usage))
MarkFlagShorthandDeprecated(bb, name, usage) ==
    MarkFlag(bb, MarkShorthandDeprecated(bb.cobra.flags, name, usage))
MarkPersistentFlagHidden(bb, name) ==
    MarkPersistentFlag(bb, MarkHidden(bb.cobra.pflags, name))
MarkPersistentFlagDeprecated(bb, name, usage) ==
    MarkPersistentFlag(bb, MarkDeprecated(bb.cobra.pflags, name, usage))
MarkPersistentFlagShorthandDeprecated(bb, name, usage) ==
    MarkPersistentFlag(bb,
        MarkShorthandDeprecated(bb.cobra.pflags, name, usage))

\* CobraCmdBuilder.Build: return b.cmd
CobraBuild(bb) == bb.cobra

\* cobra PositionalArgs: MinimumNArgs(n), MaximumNArgs(n), OnlyValidArgs and
\* MatchAll(pargs...), the list of the validators it runs in order
MinimumNArgs(n) == [k |-> "MinimumNArgs", n |-> n]
MaximumNArgs(n) == [k |-> "MaximumNArgs", n |-> n]
OnlyValidArgs == [k |-> "OnlyValidArgs", n |-> 0]
MatchAll(pargs) == pargs

\* the values the setters are called with
FlagNames == {"verbose", "force"}
FlagUsageText == "flag usage"
DeprecationMessages == {"", "use another flag"}

InitCobra ==
    /\ b = [cobra |-> NewCobraCmd("test")]
    /\ stdout = <<>>
    /\ stderr = <<>>
    /\ wr = NewWriter(0)
    /\ crashed = FALSE
    /\ calls = 0
    /\ hist = [op |-> "NewCobraCmd", arg |-> <<>>]
    /\ files = NoFiles

\* one call of the chain: r is what the call leaves
CobraStep(op, arg, r) ==
    /\ ~crashed
    /\ calls < MaxCalls
    /\ b' = r.b
    /\ crashed' = r.panic
    /\ calls' = calls + 1
    /\ hist' = [op |-> op, arg |-> arg]
    /\ UNCHANGED <<stdout, stderr, wr, files>>

NextCobra ==
    \/ \E a \in {<<"alias1", "alias2">>, <<"alias3">>} :
           CobraStep("WithAliases", a, WithAliases(b, a))
    \/ \E t \in {"short desc"} :
           CobraStep("WithShortDescription", t, WithShortDescription(b, t))
    \/ \E t \in {"long desc"} :
           CobraStep("WithLongDescription", t, WithLongDescription(b, t))
    \/ \E a \in {<<"arg1", "arg2">>, <<"arg3">>} :
           CobraStep("WithValidArgs", a, WithValidArgs(b, a))
    \/ \E a \in {MatchAll(<<MaximumNArgs(1), OnlyValidArgs>>)} :
           CobraStep("WithArgs", a, WithArgs(b, a))
    \/ CobraStep("Hidden", TRUE, Hidden(b))
    \/ CobraStep("WithRunFunc", TRUE, WithRunFunc(b))
    \/ \E n \in FlagNames, v \in BOOLEAN :
           CobraStep("WithBoolFlag", Flag(n, "", v, FlagUsageText),
                     WithBoolFlag(b, n, v, FlagUsageText))
    \/ \E n \in FlagNames, sh \in {"v"} :
           CobraStep("WithBoolPFlag", Flag(n, sh, FALSE, FlagUsageText),
                     WithBoolPFlag(b, n, sh, FALSE, FlagUsageText))
    \/ \E n \in FlagNames :
           CobraStep("WithBoolPersistentFlag",
                     Flag(n, "", FALSE, FlagUsageText),
                     WithBoolPersistentFlag(b, n, FALSE, FlagUsageText))
    \/ \E n \in FlagNames :
           CobraStep("MarkFlagHidden", [name |-> n, usage |-> "-"],
                     MarkFlagHidden(b, n))
    \/ \E n \in FlagNames, u \in DeprecationMessages :
           CobraStep("MarkFlagDeprecated", [name |-> n, usage |-> u],
                     MarkFlagDeprecated(b, n, u))
    \/ \E n \in FlagNames, u \in DeprecationMessages :
           CobraStep("MarkFlagShorthandDeprecated", [name |-> n, usage |-> u],
                     MarkFlagShorthandDeprecated(b, n, u))
    \/ \E n \in FlagNames :
           CobraStep("MarkPersistentFlagHidden", [name |-> n, usage |-> "-"],
                     MarkPersistentFlagHidden(b, n))
    \/ \E n \in FlagNames, u \in DeprecationMessages :
           CobraStep("MarkPersistentFlagDeprecated", [name |-> n, usage |-> u],
                     MarkPersistentFlagDeprecated(b, n, u))
    \/ \E n \in FlagNames, u \in DeprecationMessages :
           CobraStep("MarkPersistentFlagShorthandDeprecated",
                     [name |-> n, usage |-> u],
                     MarkPersistentFlagShorthandDeprecated(b, n, u))
    \* Build() hands out the command; hist.arg is the command it returned
    \/ CobraStep("Build", CobraBuild(b), Returned(b))

SpecCobra == InitCobra /\ [][NextCobra]_vars

\* ------------------------------------------------------ claims C11, C12
FieldSetters ==
    {"WithAliases", "WithShortDescription", "WithLongDescription",
     "WithValidArgs", "WithArgs", "Hidden", "WithRunFunc"}
LocalFlagSetters == {"WithBoolFlag", "WithBoolPFlag"}
PersistentFlagSetters == {"WithBoolPersistentFlag"}
LocalMarks ==
    {"MarkFlagHidden", "MarkFlagDeprecated", "MarkFlagShorthandDeprecated"}
PersistentMarks ==
    {"MarkPersistentFlagHidden", "MarkPersistentFlagDeprecated",
     "MarkPersistentFlagShorthandDeprecated"}
DeprecatingMarks ==
    {"MarkFlagDeprecated", "MarkFlagShorthandDeprecated",
     "MarkPersistentFlagDeprecated", "MarkPersistentFlagShorthandDeprecated"}

\* the command with the one field of the setter op given the value arg, as
\* an assignment to the cobra.Command itself would leave it (ValidArgs
\* collects the values given to it, in call order)
DirectlySet(cc, op, arg) ==
    CASE op = "WithAliases" -> [cc EXCEPT !.Aliases = arg]
      [] op = "WithShortDescription" -> [cc EXCEPT !.Short = arg]
      [] op = "WithLongDescription" -> [cc EXCEPT !.Long = arg]
      [] op = "WithValidArgs" -> [cc EXCEPT !.ValidArgs = cc.ValidArgs \o arg]
      [] op = "WithArgs" -> [cc EXCEPT !.Args = arg]
      [] op = "Hidden" -> [cc EXCEPT !.Hidden = TRUE]
      [] op = "WithRunFunc" -> [cc EXCEPT !.Run = TRUE]

\* C11: every setter call of a chain leaves the one underlying command
\* equal to the command before it with exactly the setter's own field set to
\* the value given, or with exactly the one flag of the given name and
\* default added to the flag set (local or persistent) the setter names;
\* every other field is as before, and Build() returns that same command.
C11_SettersEqualDirectConstruction ==
    [][/\ hist'.op \in FieldSetters =>
              /\ ~crashed'
              /\ b'.cobra = DirectlySet(b.cobra, hist'.op, hist'.arg)
       /\ (hist'.op \in LocalFlagSetters /\ ~crashed') =>
              /\ b'.cobra = [b.cobra EXCEPT !.flags = Append(@, hist'.arg)]
              /\ hist'.arg.hidden = FALSE
       /\ (hist'.op \in PersistentFlagSetters /\ ~crashed') =>
              /\ b'.cobra = [b.cobra EXCEPT !.pflags = Append(@, hist'.arg)]
              /\ hist'.arg.hidden = FALSE
       /\ hist'.op = "Build" =>
              /\ ~crashed'
              /\ b' = b
              /\ hist'.arg = b.cobra]_vars

\* a chain of three setters has built the command a literal with the same
\* values gives
C11_Witness ==
    /\ calls = 3
    /\ ~crashed
    /\ hist.op = "WithBoolFlag"
    /\ b.cobra = [NewCobraCmd("test") EXCEPT
                     !.Aliases = <<"alias1", "alias2">>,
                     !.Long = "long desc",
                     !.flags = <<Flag("verbose", "", TRUE, FlagUsageText)>>]

\* the flag set a Mark call looks the name up in
MarkedSet(cc, op) == IF op \in LocalMarks THEN cc.flags ELSE cc.pflags

\* C12 as stated: a Mark call panics exactly when the named flag has not
\* been registered on the corresponding flag set before, and returns the
\* builder when it has.
C12_MarkPanicsIffUnregistered ==
    [][hist'.op \in (LocalMarks \cup PersistentMarks) =>
          (crashed' <=>
              Lookup(MarkedSet(b.cobra, hist'.op), hist'.arg.name) = 0)]_vars

\* C12 amended: a Mark call panics exactly when the named flag has not been
\* registered on the corresponding flag set before or, for the Deprecated
\* variants, when the message given is empty; otherwise it returns the
\* builder with only that flag marked.
C12_MarkPanicsIffRejected ==
    [][hist'.op \in (LocalMarks \cup PersistentMarks) =>
          /\ crashed' <=>
                \/ Lookup(MarkedSet(b.cobra, hist'.op), hist'.arg.name) = 0
                \/ /\ hist'.op \in DeprecatingMarks
                   /\ hist'.arg.usage = ""
          /\ crashed' => b' = b
          /\ ~crashed' =>
                /\ Len(MarkedSet(b'.cobra, hist'.op))
                      = Len(MarkedSet(b.cobra, hist'.op))
                /\ \A i \in 1..Len(MarkedSet(b.cobra, hist'.op)) :
                      \/ MarkedSet(b'.cobra, hist'.op)[i]
                            = MarkedSet(b.cobra, hist'.op)[i]
                      \/ MarkedSet(b.cobra, hist'.op)[i].name
                            = hist'.arg.name]_vars

\* a flag registered first and then marked: the call returned
C12_Witness ==
    /\ hist.op = "MarkPersistentFlagDeprecated"
    /\ ~crashed
    /\ Len(b.cobra.pflags) = 1
    /\ b.cobra.pflags[1].deprecated = "use another flag"
    /\ b.cobra.pflags[1].hidden

\* ====================================================== ViperCfgBuilder
\* Under SpecViper b is the ViperCfgBuilder ([cfg |-> the viper.Viper]):
\*   cfg.configFile   the file SetConfigFile named, "" for none
\*   cfg.configPaths  the search paths AddConfigPath collected
\*   cfg.config       whether a read has loaded a configuration
\* files is the file system: for every path what os.Stat and a read find
\* there.  A config file is "good" (it parses) or "malformed"; a directory
\* is "good" or "malformed" when it holds such a file of the config name and
\* "empty" when it holds none; "absent" is a path that does not exist and
\* "noaccess" one whose os.Stat fails with another error.  Paths are
\* absolute and clean, so viper's absPathify leaves them as they are.
ConfigFilePaths == <<"/etc/app.yaml", "/home/app.yaml">>
ConfigDirPaths == <<"/etc/app", "/home/app">>
Range(q) == { q[i] : i \in 1..Len(q) }
FileSystems ==
    { ff \in [Range(ConfigFilePaths) \cup Range(ConfigDirPaths) ->
                 {"absent", "noaccess", "empty", "good", "malformed"}] :
        \A p \in Range(ConfigFilePaths) : ff[p] # "empty" }

\* the argument lists of a variadic call over two paths: none, one, both in
\* either order, one twice
PathLists(q) ==
    {<<>>, <<q[1]>>, <<q[2]>>, <<q[1], q[2]>>, <<q[2], q[1]>>, <<q[1], q[1]>>}

\* exists(path): os.Stat succeeds; false for IsNotExist and for every other
\* error
exists_anyerror(ff, path) == ff[path] # "absent"
exists(ff, path) == ff[path] \notin {"absent", "noaccess"}

\* viper.New()
NewViper == [configFile |-> "", configPaths |-> <<>>, config |-> "none"]

\* viper SetConfigFile: if in != "" { v.configFile = in }
SetConfigFile(cfg, in) ==
    IF in # "" THEN [cfg EXCEPT !.configFile = in] ELSE cfg

\* viper AddConfigPath: the path is appended unless it is empty or among
\* the search paths already
AddConfigPath(cfg, in) ==
    IF in # "" /\ in \notin Range(cfg.configPaths)
    THEN [cfg EXCEPT !.configPaths = Append(@, in)]
    ELSE cfg

\* viper getConfigFile: the configured file, or the first search path that
\* holds a file of the config name; "" when there is none
RECURSIVE findConfigFile(_, _, _)
findConfigFile(cfg, ff, i) ==
    IF i > Len(cfg.configPaths) THEN ""
    ELSE IF ff[cfg.configPaths[i]] \in {"good", "malformed"}
         THEN cfg.configPaths[i]
         ELSE findConfigFile(cfg, ff, i + 1)
getConfigFile(cfg, ff) ==
    IF cfg.configFile # "" THEN cfg.configFile ELSE findConfigFile(cfg, ff, 1)

\* viper ReadInConfig: an error when no config file is found, when it cannot
\* be read or when it does not parse; otherwise the configuration is loaded
ViperReadInConfig(cfg, ff) ==
    IF getConfigFile(cfg, ff) = "" THEN [err |-> TRUE, cfg |-> cfg]
    ELSE IF ff[getConfigFile(cfg, ff)] # "good" THEN [err |-> TRUE, cfg |-> cfg]
    ELSE [err |-> FALSE, cfg |-> [cfg EXCEPT !.config = "loaded"]]

\* viper ReadConfig(in): the configuration is replaced by what the reader
\* holds; an error when that does not parse
ViperReadConfig(cfg, in) ==
    IF in # "good" THEN [err |-> TRUE, cfg |-> [cfg EXCEPT !.config = "none"]]
    ELSE [err |-> FALSE, cfg |-> [cfg EXCEPT !.config = "loaded"]]

\* what a ViperCfgBuilder call leaves: the builder, whether log.Fatalf ended
\* the process, and the line it logged
Went(bb) == [exit |-> FALSE, log |-> <<>>, b |-> bb]
Fatal(bb, line) == [exit |-> TRUE, log |-> <<line>>, b |-> bb]

\* NewViperCfg
NewViperCfg == [cfg |-> NewViper]

\* WithConfigFiles: the first file of the list that exists is set, the rest
\* of the list is skipped
RECURSIVE WithConfigFilesFrom_last(_, _, _, _)
WithConfigFilesFrom_last(bb, ff, fl, i) ==
    IF i > Len(fl) THEN bb
    ELSE IF exists(ff, fl[i])
         THEN WithConfigFilesFrom_last(
                  [bb EXCEPT !.cfg = SetConfigFile(bb.cfg, fl[i])],
                  ff, fl, i + 1)
         ELSE WithConfigFilesFrom_last(bb, ff, fl, i + 1)
RECURSIVE WithConfigFilesFrom(_, _, _, _)
WithConfigFilesFrom(bb, ff, fl, i) ==
    IF i > Len(fl) THEN bb
    ELSE IF exists(ff, fl[i])
         THEN [bb EXCEPT !.cfg = SetConfigFile(bb.cfg, fl[i])]
         ELSE WithConfigFilesFrom(bb, ff, fl, i + 1)
WithConfigFiles(bb, ff, fl) == Went(WithConfigFilesFrom(bb, ff, fl, 1))

\* WithConfigPaths: every path of the list that exists is added
RECURSIVE WithConfigPathsFrom(_, _, _, _)
WithConfigPathsFrom(bb, ff, pl, i) ==
    IF i > Len(pl) THEN bb
    ELSE IF exists(ff, pl[i])
         THEN WithConfigPathsFrom(
                  [bb EXCEPT !.cfg = AddConfigPath(bb.cfg, pl[i])],
                  ff, pl, i + 1)
         ELSE WithConfigPathsFrom(bb, ff, pl, i + 1)
WithConfigPaths(bb, ff, pl) == Went(WithConfigPathsFrom(bb, ff, pl, 1))

\* ReadConfig / ReadInConfig: log.Fatalf when the read returns an error
ReadConfig(bb, in) ==
    IF ViperReadConfig(bb.cfg, in).err
    THEN Fatal([bb EXCEPT !.cfg = ViperReadConfig(bb.cfg, in).cfg],
               "Error reading config")
    ELSE Went([bb EXCEPT !.cfg = ViperReadConfig(bb.cfg, in).cfg])
ReadInConfig_ignoreserror(bb, ff) ==
    Went([bb EXCEPT !.cfg = ViperReadInConfig(bb.cfg, ff).cfg])
ReadInConfig(bb, ff) ==
    IF ViperReadInConfig(bb.cfg, ff).err
    THEN Fatal(bb, "Error reading in config")
    ELSE Went([bb EXCEPT !.cfg = ViperReadInConfig(bb.cfg, ff).cfg])

\* NewDefaultViperCfg(name): log.Fatal when os.Getwd fails; otherwise a new
\* viper with the working directory and then the XDG config directory of
\* name as search paths, and one read whose error is dropped.  getwd is what
\* os.Getwd returns, xdgdir is xdg.ConfigHome + "/" + name; SetConfigName(name)
\* is what makes the file system's directory kinds speak of files called name
NewDefaultViperCfg_fatalread(ff, getwd, xdgdir) ==
    IF getwd.err THEN Fatal(NewViperCfg, "getwd")
    ELSE ReadInConfig(
             [cfg |-> AddConfigPath(AddConfigPath(NewViper, getwd.dir),
                                    xdgdir)], ff)
NewDefaultViperCfg(ff, getwd, xdgdir) ==
    IF getwd.err THEN Fatal(NewViperCfg, "getwd")
    ELSE Went([cfg |-> ViperReadInConfig(
                           AddConfigPath(AddConfigPath(NewViper, getwd.dir),
                                         xdgdir), ff).cfg])

\* Build: return b.cfg
ViperBuild(bb) == bb.cfg

\* ReadInConfigAndBuild: b.ReadInConfig().Build()
ReadInConfigAndBuild(bb, ff) == ReadInConfig(bb, ff)

InitViper ==
    /\ b = NewViperCfg
    /\ files \in FileSystems
    /\ stdout = <<>>
    /\ stderr = <<>>
    /\ wr = NewWriter(0)
    /\ crashed = FALSE
    /\ calls = 0
    /\ hist = [op |-> "NewViperCfg", arg |-> <<>>]

\* one call of the chain: r is what the call leaves; a fatal log line goes
\* to stderr
ViperStep(op, arg, r) ==
    /\ ~crashed
    /\ calls < MaxCalls
    /\ b' = r.b
    /\ crashed' = r.exit
    /\ stderr' = r.log
    /\ calls' = calls + 1
    /\ hist' = [op |-> op, arg |-> arg]
    /\ UNCHANGED <<stdout, wr, files>>

NextViper ==
    \* a chain begun with NewDefaultViperCfg: os.Getwd fails or names a
    \* directory, the XDG directory is the same or another one
    \/ \E getwd \in {[err |-> TRUE, dir |-> ""]}
                        \cup [err : {FALSE}, dir : Range(ConfigDirPaths)],
          xdgdir \in Range(ConfigDirPaths) :
           /\ hist.op = "NewViperCfg"
           /\ ViperStep("NewDefaultViperCfg",
                        [getwd |-> getwd, xdgdir |-> xdgdir],
                        NewDefaultViperCfg(files, getwd, xdgdir))
    \/ \E fl \in PathLists(ConfigFilePaths) :
           ViperStep("WithConfigFiles", fl, WithConfigFiles(b, files, fl))
    \/ \E pl \in PathLists(ConfigDirPaths) :
           ViperStep("WithConfigPaths", pl, WithConfigPaths(b, files, pl))
    \* ReadConfig is handed a reader of content that parses or does not
    \/ \E in \in {"good", "malformed"} :
           ViperStep("ReadConfig", in, ReadConfig(b, in))
    \/ ViperStep("ReadInConfig", <<>>, ReadInConfig(b, files))
    \/ ViperStep("ReadInConfigAndBuild", <<>>, ReadInConfigAndBuild(b, files))
    \* Build() hands out the viper.Viper; hist.arg is what it returned
    \/ ViperStep("Build", ViperBuild(b), Went(b))
    \* the caller reads with the viper.Viper that Build() returned and gets the
    \* error back; hist.arg is that error
    \/ /\ hist.op = "Build"
       /\ ViperStep("viper.ReadInConfig",
                    ViperReadInConfig(b.cfg, files).err,
                    Went([b EXCEPT
                             !.cfg = ViperReadInConfig(b.cfg, files).cfg]))

SpecViper == InitViper /\ [][NextViper]_vars

\* ------------------------------------------------- claims C13, C14, C15
\* the path is there and os.Stat can tell
IsThere(p) == files[p] \notin {"absent", "noaccess"}

\* a read in the configuration b.cfg fails: no config file is found, or
\* the one found does not parse
ReadInFails ==
    \/ getConfigFile(b.cfg, files) = ""
    \/ files[getConfigFile(b.cfg, files)] # "good"

\* C13: ReadInConfig, ReadInConfigAndBuild and ReadConfig end the process,
\* after logging, exactly when the read fails and otherwise return with the
\* configuration loaded; no other builder call ends the process; Build()
\* reads nothing and returns the viper.Viper as it is, and the caller's own
\* read on it returns the error instead of ending the process.
C13_ReadErrorsFatalOnlyInHelpers ==
    [][/\ hist'.op \in {"ReadInConfig", "ReadInConfigAndBuild"} =>
              /\ crashed' <=> ReadInFails
              /\ crashed' => stderr' # <<>>
              /\ ~crashed' => b'.cfg = [b.cfg EXCEPT !.config = "loaded"]
       /\ hist'.op = "ReadConfig" =>
              /\ crashed' <=> hist'.arg # "good"
              /\ crashed' => stderr' # <<>>
              /\ ~crashed' => b'.cfg = [b.cfg EXCEPT !.config = "loaded"]
       /\ hist'.op \in {"WithConfigFiles", "WithConfigPaths"} => ~crashed'
       /\ hist'.op = "Build" =>
              /\ ~crashed'
              /\ b' = b
              /\ hist'.arg = b.cfg
       /\ hist'.op = "viper.ReadInConfig" =>
              /\ ~crashed'
              /\ hist'.arg <=> ReadInFails]_vars

\* Build() first, then the caller's own read: it failed, the caller has the
\* error and the process goes on
C13_Witness ==
    /\ hist.op = "viper.ReadInConfig"
    /\ hist.arg = TRUE
    /\ ~crashed
    /\ b.cfg.config = "none"

\* the position of the first path of the list that is there, 0 for none
FirstThere(fl) ==
    IF \E i \in 1..Len(fl) : IsThere(fl[i])
    THEN CHOOSE i \in 1..Len(fl) :
             IsThere(fl[i]) /\ \A j \in 1..(i - 1) : ~IsThere(fl[j])
    ELSE 0

\* C14: WithConfigFiles(files...) sets the config file to the first file of
\* the list that exists and changes nothing else; when no file of the list
\* exists the config file stays what it was.
C14_FirstExistingFileWins ==
    [][hist'.op = "WithConfigFiles" =>
          /\ ~crashed'
          /\ b'.cfg = [b.cfg EXCEPT !.configFile =
                          IF FirstThere(hist'.arg) = 0 THEN @
                          ELSE hist'.arg[FirstThere(hist'.arg)]]]_vars

\* both files exist and the first of the argument list was taken
C14_Witness ==
    /\ hist.op = "WithConfigFiles"
    /\ hist.arg = <<"/home/app.yaml", "/etc/app.yaml">>
    /\ IsThere("/home/app.yaml")
    /\ IsThere("/etc/app.yaml")
    /\ b.cfg.configFile = "/home/app.yaml"

\* the paths of the list that are there, in argument order
ThereOf(pl) == SelectSeq(pl, IsThere)

\* C15 as stated: after WithConfigPaths(paths...) the search paths are the
\* previous ones followed by exactly the existing paths of the argument
\* list, in argument order.
C15_ExistingPathsAppended ==
    [][hist'.op = "WithConfigPaths" =>
          b'.cfg = [b.cfg EXCEPT !.configPaths = @ \o ThereOf(hist'.arg)]]_vars

\* q followed by the entries of ps that are not in it yet, each once
RECURSIVE AppendNew(_, _)
AppendNew(q, ps) ==
    IF ps = <<>> THEN q
    ELSE AppendNew(IF Head(ps) \in Range(q) THEN q ELSE Append(q, Head(ps)),
                   Tail(ps))

\* C15 amended: after WithConfigPaths(paths...) the search paths are the
\* previous ones followed by the existing paths of the argument list that
\* are not search paths already, each once, in argument order; a path
\* that does not exist or cannot be stat'ed is never added.
C15_ExistingNewPathsAppended ==
    [][hist'.op = "WithConfigPaths" =>
          /\ ~crashed'
          /\ b'.cfg = [b.cfg EXCEPT
                          !.configPaths = AppendNew(@, ThereOf(hist'.arg))]
          /\ \A p \in Range(b'.cfg.configPaths) \ Range(b.cfg.configPaths) :
                IsThere(p)]_vars

\* of a path that cannot be stat'ed and one that exists, only the second
\* was added
C15_Witness ==
    /\ hist.op = "WithConfigPaths"
    /\ hist.arg = <<"/etc/app", "/home/app">>
    /\ files["/etc/app"] = "noaccess"
    /\ files["/home/app"] = "good"
    /\ b.cfg.configPaths = <<"/home/app">>

\* ============================================ BoaCmdBuilder: valid args
\* Under SpecArgs b is the BoaCmdBuilder as in Spec; the calls are the ones
\* that feed ValidArgs and Args, Build() and the execution of the command
\* with positional arguments.  hist holds the last operation (op), its
\* argument (arg), whether Build() has handed the Command out (built) and
\* how the last execution ended (out: "error", "run" or "help").

\* the aliases of a list of Options or Profiles, in order:
\*   for _, opt := range list { ... append(..., opt.Args...) }
RECURSIVE AllArgs(_, _)
AllArgs(list, i) ==
    IF i > Len(list) THEN <<>> ELSE list[i].Args \o AllArgs(list, i + 1)

\* BoaCmdBuilder.WithValidOptions: the options are appended to Opts, then
\* the aliases of every option the Command has are appended to ValidArgs
WithValidOptions(bb, opts) ==
    [bb EXCEPT !.cmd.Opts = @ \o opts,
               !.cobra.ValidArgs = @ \o AllArgs(bb.cmd.Opts \o opts, 1)]

\* BoaCmdBuilder.WithValidProfiles: the same for Profiles
WithValidProfiles(bb, profs) ==
    [bb EXCEPT !.cmd.Profiles = @ \o profs,
               !.cobra.ValidArgs = @ \o AllArgs(bb.cmd.Profiles \o profs, 1)]

\* BoaCmdBuilder.WithValidArgsFromOptions
WithValidArgsFromOptions(bb) ==
    [bb EXCEPT !.cobra.ValidArgs = @ \o AllArgs(bb.cmd.Opts, 1)]

\* BoaCmdBuilder.WithMinValidArgs / WithMaxValidArgs
WithMinValidArgs_minonly(bb, minArgs) ==
    [bb EXCEPT !.cobra.Args = MatchAll(<<MinimumNArgs(minArgs)>>)]
WithMinValidArgs(bb, minArgs) ==
    [bb EXCEPT !.cobra.Args =
                  MatchAll(<<MinimumNArgs(minArgs), OnlyValidArgs>>)]
WithMaxValidArgs_adds(bb, maxArgs) ==
    [bb EXCEPT !.cobra.Args =
                  MatchAll(@ \o <<MaximumNArgs(maxArgs), OnlyValidArgs>>)]
WithMaxValidArgs(bb, maxArgs) ==
    [bb EXCEPT !.cobra.Args =
                  MatchAll(<<MaximumNArgs(maxArgs), OnlyValidArgs>>)]

\* BoaCmdBuilder.Build: return b.cmd, the builder's own Command
BoaBuild(bb) == bb.cmd

\* cobra: one PositionalArgs validator on the arguments; TRUE is an error.
\* OnlyValidArgs checks the arguments only when ValidArgs is not empty
ArgError(cc, parg, args) ==
    CASE parg.k = "MinimumNArgs" -> Len(args) < parg.n
      [] parg.k = "MaximumNArgs" -> Len(args) > parg.n
      [] parg.k = "OnlyValidArgs" ->
            /\ Len(cc.ValidArgs) > 0
            /\ \E i \in 1..Len(args) : args[i] \notin Range(cc.ValidArgs)

\* cobra Command.ValidateArgs: c.Args(c, args), no error for a nil Args
ValidateArgs(cc, args) ==
    \E i \in 1..Len(cc.Args) : ArgError(cc, cc.Args[i], args)

\* cobra Command.execute for a command without subcommands, called with
\* positional arguments only: a command that is not runnable shows its help
\* and returns no error; a runnable one validates the arguments and runs
ExecuteC(cc, args) ==
    IF ~Runnable(cc) THEN "help"
    ELSE IF ValidateArgs(cc, args) THEN "error"
    ELSE "run"

\* the values the calls are given
ValidOptLists == {<<Opt1>>, <<Opt2>>, <<Opt1, Opt2>>}
MinArgsValues == {1, 2}
MaxArgsValues == {1}

InitArgs ==
    /\ b = NewCmd("install")
    /\ stdout = <<>>
    /\ stderr = <<>>
    /\ wr = NewWriter(0)
    /\ crashed = FALSE
    /\ calls = 0
    /\ hist = [op |-> "NewCmd", arg |-> <<>>, built |-> FALSE, out |-> "",
               wrote |-> {}]
    /\ files = NoFiles

\* one call on the builder; hist.wrote collects the calls that wrote the
\* Args validator so far
ArgsStep(op, arg, bb) ==
    /\ calls < MaxCalls
    /\ b' = bb
    /\ calls' = calls + 1
    /\ hist' = [op |-> op, arg |-> arg, built |-> hist.built, out |-> "",
                wrote |-> IF op \in {"WithMinValidArgs", "WithMaxValidArgs",
                                      "WithArgs"}
                          THEN hist.wrote \cup {<<op, arg>>} ELSE hist.wrote]
    /\ UNCHANGED <<stdout, stderr, wr, crashed, files>>

NextArgs ==
    \/ \E opts \in ValidOptLists :
           ArgsStep("WithOptions", opts, WithOptions(b, opts))
    \/ \E profs \in {<<Prof2>>} :
           ArgsStep("WithProfiles", profs, WithProfiles(b, profs))
    \/ \E opts \in ValidOptLists :
           ArgsStep("WithValidOptions", opts, WithValidOptions(b, opts))
    \/ \E profs \in {<<Prof2>>} :
           ArgsStep("WithValidProfiles", profs, WithValidProfiles(b, profs))
    \/ ArgsStep("WithValidArgsFromOptions", <<>>, WithValidArgsFromOptions(b))
    \/ \E n \in MinArgsValues :
           ArgsStep("WithMinValidArgs", n, WithMinValidArgs(b, n))
    \/ \E n \in MaxArgsValues :
           ArgsStep("WithMaxValidArgs", n, WithMaxValidArgs(b, n))
    \/ ArgsStep("WithRunFunc", TRUE, WithRunFunc(b).b)
    \/ \E a \in {<<"arg1", "arg2">>, <<"option1">>} :
           ArgsStep("WithValidArgs", a, WithValidArgs(b, a).b)
    \/ \E a \in {<<"alias1", "alias2">>, <<"alias3">>} :
           ArgsStep("WithAliases", a, WithAliases(b, a).b)
    \* WithArgs(cobra.OnlyValidArgs)
    \/ ArgsStep("WithArgs", <<OnlyValidArgs>>,
                WithArgs(b, <<OnlyValidArgs>>).b)
    \* Build(): the caller now holds the Command, which is b.cmd itself
    \/ /\ b' = b
       /\ hist' = [op |-> "Build", arg |-> BoaBuild(b), built |-> TRUE,
                   out |-> "", wrote |-> hist.wrote]
       /\ UNCHANGED <<stdout, stderr, wr, crashed, calls, files>>
    \* the built command is executed with the positional arguments args: cobra
    \* registers the help flag, then shows the help, fails or runs
    \/ \E args \in {<<>>, <<"option1">>, <<"bogus">>,
                    <<"option1", "option2">>, <<"option1", "bogus">>} :
           /\ hist.built
           /\ b' = [b EXCEPT !.cobra = InitDefaultHelpFlag(b.cobra)]
           /\ hist' = [op |-> "Execute", arg |-> args, built |-> TRUE,
                       out |-> ExecuteC(InitDefaultHelpFlag(b.cobra), args),
                       wrote |-> hist.wrote]
           /\ UNCHANGED <<stdout, stderr, wr, crashed, calls, files>>

SpecArgs == InitArgs /\ [][NextArgs]_vars

\* ---------------------------------------------------------------------------
\* Claims about valid args, options and the built Command
\* ---------------------------------------------------------------------------

\* C16: a WithValidOptions call makes ValidArgs gain exactly the aliases of
\* the options passed to that call, in order, each once, and a
\* WithValidProfiles call the aliases of the profiles passed to it, whatever
\* calls came before.
C16_ValidArgsGainPassedAliases ==
    [][(hist'.op \in {"WithValidOptions", "WithValidProfiles"})
        => b'.cobra.ValidArgs = b.cobra.ValidArgs \o AllArgs(hist'.arg, 1)]_vars

\* the command was built with WithMinValidArgs(n) / WithMaxValidArgs(n): the
\* validator that call installs is the one in force
BuiltWithMin(bb, n) == bb.cobra.Args = WithMinValidArgs(bb, n).cobra.Args
BuiltWithMax(bb, n) == bb.cobra.Args = WithMaxValidArgs(bb, n).cobra.Args
NotValid(cc, args) == \E i \in 1..Len(args) : args[i] \notin Range(cc.ValidArgs)

C18_OptionsUniqueByCanonicalAlias ==
    \A i \in 1..Len(b.cmd.Opts) :
        /\ b.cmd.Opts[i].Args # <<>>
        /\ \A j \in 1..Len(b.cmd.Opts) :
               i # j => b.cmd.Opts[i].Args[1] # b.cmd.Opts[j].Args[1]

\* the option names the profile refers to that no declared Option carries
Declared(opts) == UNION { Range(opts[i].Args) : i \in 1..Len(opts) }
Unresolved(prof, opts) == Range(prof.Opts) \ Declared(opts)

\* C19: a Profile whose Opts name an option that is not among the Command's
\* declared Options fails nowhere: the builder call and Build succeed, and
\* the rendered help lists the profile's references, the unresolved one
\* included, verbatim on the profile's continuation line.
C19_UnresolvedReferenceListed ==
    /\ (/\ hist.op = "WithProfiles"
        /\ \E i \in 1..Len(b.cmd.Profiles) :
               Unresolved(b.cmd.Profiles[i], b.cmd.Opts) # {}) => ~crashed
    /\ (hist.op \in RenderOps /\ Rendered.template = OptionsTemplate) =>
        \A i \in 1..Len(Rendered.c.Profiles) :
            Unresolved(Rendered.c.Profiles[i], Rendered.c.Opts) # {} =>
                /\ ~crashed /\ stderr = <<>>
                /\ \E n \in 1..Len(Section(stdout, "Profiles:")) :
                       IsRowOf(Section(stdout, "Profiles:")[n],
                               ProfileCells(Rendered.c.Profiles)[2 * i])

\* C20: once Build() has returned the Command, no later operation, a further
\* call on the builder that produced it included, changes the Command's Opts
\* or Profiles.
C20_BuiltCommandImmutable ==
    [][hist.built => /\ BoaBuild(b').Opts = BoaBuild(b).Opts
                     /\ BoaBuild(b').Profiles = BoaBuild(b).Profiles]_vars

\* ---------------------------------------------------------------------------
\* Claims about the Profiles section, the flush and the captured Command
\* ---------------------------------------------------------------------------

\* C21: the options template renders the "Profiles:" section exactly when the
\* Profiles sequence of the Command it renders is not empty, whatever its
\* Opts, its flags and its other fields are; a Command that has no Profile at
\* all never shows the section.
C21_ProfilesSectionIffProfiles ==
    RenderedOptionsTemplate =>
        /\ "Profiles:" \in Lines(stdout) <=> Len(Rendered.c.Profiles) > 0
        /\ Len(b.cmd.Profiles) = 0 => "Profiles:" \notin Lines(stdout)
C21_Witness ==
    /\ RenderedOptionsTemplate
    /\ Len(Rendered.c.Profiles) > 0
    /\ Len(Rendered.c.Opts) = 0
    /\ "Profiles:" \in Lines(stdout)

\* ---------------------------------------------------------------------------
\* Conversions between the builders
\* ---------------------------------------------------------------------------
\* A BoaCmdBuilder holds two pointers to a cobra.Command: the one of its
\* embedded CobraCmdBuilder (b.cobra, what the chained cobra methods write)
\* and the one embedded in its boa Command.  held is empty when both point
\* to the one object b.cobra, and holds the other cobra.Command when the boa
\* Command embeds an object of its own.
NoOwn == [Opts |-> <<>>, Profiles |-> <<>>]
Embedded(bb) == IF bb.held = <<>> THEN bb.cobra ELSE bb.held[1]

\* ToBoaCmdBuilder(cmd): &BoaCmdBuilder{&CobraCmdBuilder{cmd},
\* &Command{cmd, []Option{}, []Profile{}}}
ToBoaCmdBuilder(cmd) == [cobra |-> cmd, cmd |-> NoOwn, held |-> <<>>]

\* CobraCmdBuilder.ToBoaCmdBuilder: the same CobraCmdBuilder and a new boa
\* Command around its cobra.Command, without options and profiles
CobraCmdBuilder_ToBoaCmdBuilder_fresh(bb) ==
    [cobra |-> NewCobraCmd(bb.cobra.Use), cmd |-> NoOwn, held |-> <<>>]
CobraCmdBuilder_ToBoaCmdBuilder_keeps(bb) ==
    [cobra |-> bb.cobra, cmd |-> bb.cmd, held |-> <<>>]
CobraCmdBuilder_ToBoaCmdBuilder(bb) ==
    [cobra |-> bb.cobra, cmd |-> NoOwn, held |-> <<>>]

\* CobraCmdBuilder.BuildBoaCmd, and BoaCmdBuilder.Build with the embedded
\* cobra.Command written out
BuildBoaCmd(bb) ==
    [Command |-> bb.cobra, Opts |-> <<>>, Profiles |-> <<>>]
Built(bb) ==
    [Command |-> Embedded(bb), Opts |-> BoaBuild(bb).Opts,
     Profiles |-> BoaBuild(bb).Profiles]

\* Command.ToBuilder (value receiver): the builder gets NewCobraCmd(b.Use), a
\* new cobra.Command, and &b, the copy of the Command, which still embeds the
\* cobra.Command it was built with
ToBuilder(c) ==
    [cobra |-> NewCobraCmd(c.Command.Use),
     cmd |-> [Opts |-> c.Opts, Profiles |-> c.Profiles],
     held |-> <<c.Command>>]

\* NewCmd("install"): both pointers are the one new cobra.Command
InitConv ==
    /\ b = ToBoaCmdBuilder(NewCobraCmd("install"))
    /\ stdout = <<>>
    /\ stderr = <<>>
    /\ wr = NewWriter(0)
    /\ crashed = FALSE
    /\ calls = 0
    /\ hist = [op |-> "NewCmd", arg |-> <<>>]
    /\ files = NoFiles

\* one call of the chain: r is what the call leaves
ConvStep(op, arg, r) ==
    /\ ~crashed
    /\ calls < MaxCalls
    /\ b' = r.b
    /\ crashed' = r.panic
    /\ calls' = calls + 1
    /\ hist' = [op |-> op, arg |-> arg]
    /\ UNCHANGED <<stdout, stderr, wr, files>>

NextConv ==
    \/ ConvStep("WithShortDescription", "short desc",
                WithShortDescription(b, "short desc"))
    \/ ConvStep("WithRunFunc", TRUE, WithRunFunc(b))
    \/ ConvStep("WithBoolFlag", "verbose",
                WithBoolFlag(b, "verbose", FALSE, FlagUsageText))
    \/ \E opts \in ValidOptLists :
           ConvStep("WithOptions", opts, Returned(WithOptions(b, opts)))
    \/ ConvStep("WithProfiles", <<Prof2>>,
                Returned(WithProfiles(b, <<Prof2>>)))
    \/ ConvStep("WithOptionsTemplate", <<>>, Returned(WithOptionsTemplate(b)))
    \* the chain goes on with the builder the conversion returns; hist.arg
    \* is the Command the builder before it would have built
    \/ ConvStep("CobraCmdBuilder.ToBoaCmdBuilder", Built(b),
                Returned(CobraCmdBuilder_ToBoaCmdBuilder(b)))
    \* ToBoaCmdBuilder(b.BuildCobraCmd())
    \/ ConvStep("ToBoaCmdBuilder", Built(b),
                Returned(ToBoaCmdBuilder(Embedded(b))))
    \* b.Build().ToBuilder()
    \/ ConvStep("ToBuilder", Built(b), Returned(ToBuilder(Built(b))))
    \* Build() and BuildBoaCmd() hand out a Command; hist.arg is that Command
    \/ ConvStep("Build", Built(b), Returned(b))
    \/ ConvStep("BuildBoaCmd", BuildBoaCmd(b), Returned(b))

SpecConv == InitConv /\ [][NextConv]_vars

\* C22: the BoaCmdBuilder that CobraCmdBuilder.ToBoaCmdBuilder() returns
\* wraps the very cobra.Command the CobraCmdBuilder was building: builder and
\* boa Command both hold it, so every field, flag and hook set before the
\* conversion is on the command Build() returns.
C22_ConversionKeepsCobraCommand ==
    [][(hist'.op = "CobraCmdBuilder.ToBoaCmdBuilder")
        => /\ b'.cobra = b.cobra
           /\ Built(b').Command = b.cobra]_vars
C22_Witness ==
    /\ hist.op = "CobraCmdBuilder.ToBoaCmdBuilder"
    /\ Built(b).Command.Short = "short desc"
    /\ Built(b).Command.flags # <<>>

\* C23: when the usage or help function returns, its tabwriter has been
\* flushed: all the text the template produced is on the output stream and
\* nothing is left in the writer, whatever the template is.
C23_RenderFlushesWriter ==
    (hist.op \in RenderOps /\ ~crashed /\ stderr = <<>>) => Drained(wr)

\* the closures a builder call installs, and the calls that install none
Installs(op) ==
    CASE op = "WithUsageTemplate" -> {"usageFunc"}
      [] op = "WithHelpTemplate" -> {"helpFunc"}
      [] op \in {"WithOptionsTemplate", "WithOptionsAndTemplate"} ->
            {"usageFunc", "helpFunc"}
      [] OTHER -> {}
\* the usage line the options template writes for the cobra.Command cc and
\* the captured Command c
UsageLineOf(c, cc) ==
    (IF Runnable(cc) THEN "  " \o UseLine(cc) ELSE "Usage:")
        \o (IF Len(c.Opts) > 0 THEN " [options]" ELSE "")
\* the rows the two cells can make, whatever the column width is
RowsOf(cells) == { Row(cells, k) : k \in 1..MaxGap }
\* what a render of the options template shows: the sections of the Command
\* captured at installation, no row of an option or profile added since, and
\* the usage line and flags of the cobra.Command as it is now
ShowsCaptured ==
    RenderedOptionsTemplate =>
        /\ "Options:" \in Lines(stdout) <=> Len(Rendered.c.Opts) > 0
        /\ "Profiles:" \in Lines(stdout) <=> Len(Rendered.c.Profiles) > 0
        /\ \A i \in 1..Len(b.cmd.Opts) :
               b.cmd.Opts[i] \notin Range(Rendered.c.Opts) =>
                   RowsOf(OptionCells(b.cmd.Opts)[i]) \cap Lines(stdout) = {}
        /\ \A i \in 1..Len(b.cmd.Profiles) :
               b.cmd.Profiles[i] \notin Range(Rendered.c.Profiles) =>
                   RowsOf(ProfileCells(b.cmd.Profiles)[2 * i - 1])
                       \cap Lines(stdout) = {}
        /\ UsageLineOf(Rendered.c, b.cobra) \in Lines(stdout)
        /\ "Flags:" \in Lines(stdout) <=> HasAvailableFlags(b.cobra)

\* C24: a template installation captures the Command's Opts and Profiles as
\* they are at that moment; no other builder call changes what an installed
\* function holds, so options and profiles added after the last installation
\* never show in the rendered text, while the usage line and the flags are
\* those of the cobra.Command at the time of the render.
C24_OptionsFixedAtInstallation ==
    /\ [][/\ \A fn \in Installs(hist'.op) : b'.cobra[fn].c = b'.cmd
          /\ \A fn \in {"usageFunc", "helpFunc"} \ Installs(hist'.op) :
                 b'.cobra[fn] = b.cobra[fn]]_vars
    /\ []ShowsCaptured
C24_Witness ==
    /\ RenderedOptionsTemplate
    /\ Rendered.c.Opts = <<>>
    /\ b.cmd.Opts # <<>>
    /\ Runnable(b.cobra)
    /\ "  options" \in Lines(stdout)
    /\ "Options:" \notin Lines(stdout)

\* C25: in every BoaCmdBuilder, however it was obtained, the cobra.Command
\* the chained CobraCmdBuilder methods write is the cobra.Command embedded in
\* the boa Command that Build() returns, so what a chained method sets is
\* on the built Command.
C25_OneCobraCommand == Built(b).Command = b.cobra

\* C26: CobraCmdBuilder.ToBoaCmdBuilder() and BuildBoaCmd() yield a new boa
\* Command with empty Opts and empty Profiles, whatever options and profiles
\* the BoaCmdBuilder before it had; the usage and help functions installed
\* earlier stay on the shared cobra.Command.
C26_ConversionDropsOptions ==
    [][/\ (hist'.op = "CobraCmdBuilder.ToBoaCmdBuilder")
            => /\ Built(b').Opts = <<>>
               /\ Built(b').Profiles = <<>>
               /\ Built(b').Command.usageFunc = b.cobra.usageFunc
               /\ Built(b').Command.helpFunc = b.cobra.helpFunc
       /\ (hist'.op = "BuildBoaCmd")
            => /\ hist'.arg.Opts = <<>>
               /\ hist'.arg.Profiles = <<>>
               /\ hist'.arg.Command = b.cobra]_vars
C26_Witness ==
    /\ hist.op = "CobraCmdBuilder.ToBoaCmdBuilder"
    /\ hist.arg.Opts # <<>>
    /\ Built(b).Opts = <<>>
    /\ Built(b).Command.helpFunc.installed
    /\ Built(b).Command.helpFunc.c.Opts = hist.arg.Opts

\* C27: WithValidArgs appends to ValidArgs, after what earlier WithValidArgs,
\* WithValidOptions and WithValidArgsFromOptions calls put there, while
\* WithAliases and WithArgs replace the value an earlier call set.
C27_ValidArgsAccumulate ==
    [][/\ (hist'.op = "WithValidArgs")
            => b'.cobra.ValidArgs = b.cobra.ValidArgs \o hist'.arg
       /\ (hist'.op = "WithAliases") => b'.cobra.Aliases = hist'.arg
       /\ (hist'.op = "WithArgs") => b'.cobra.Args = hist'.arg]_vars
C27_Witness ==
    /\ hist.op = "WithValidArgs"
    /\ b.cmd.Opts = <<Opt2>>
    /\ b.cobra.ValidArgs = <<"option2", "arg1", "arg2", "option1">>

\* C28: WithMinValidArgs, WithMaxValidArgs and WithArgs each write the single
\* Args validator of the command, so only the last of them is in force: the
\* validator after such a call is the one of that call alone, and a runnable
\* command whose last such call was WithMaxValidArgs(n) runs with any
\* acceptable arguments of at most n, however many an earlier
\* WithMinValidArgs asked for, and one whose last such call was
\* WithMinValidArgs(n) runs with any acceptable arguments of at least n,
\* however few an earlier WithMaxValidArgs allowed.
C28_LastArgsValidatorInForce ==
    [][/\ (hist'.op = "WithMinValidArgs")
            => b'.cobra.Args = <<MinimumNArgs(hist'.arg), OnlyValidArgs>>
       /\ (hist'.op = "WithMaxValidArgs")
            => b'.cobra.Args = <<MaximumNArgs(hist'.arg), OnlyValidArgs>>
       /\ (hist'.op = "WithArgs") => b'.cobra.Args = hist'.arg
       /\ (/\ hist'.op = "Execute"
           /\ Runnable(b.cobra)
           /\ ~(b.cobra.ValidArgs # <<>> /\ NotValid(b.cobra, hist'.arg)))
            => /\ \A n \in MaxArgsValues :
                    (/\ b.cobra.Args = <<MaximumNArgs(n), OnlyValidArgs>>
                     /\ Len(hist'.arg) <= n)
                    => hist'.out = "run"
               /\ \A n \in MinArgsValues :
                    (/\ b.cobra.Args = <<MinimumNArgs(n), OnlyValidArgs>>
                     /\ Len(hist'.arg) >= n)
                    => hist'.out = "run"]_vars

\* after WithMinValidArgs(2) and then WithMaxValidArgs(1) the runnable command
\* ran with no argument at all: the minimum is not enforced
C28_Witness ==
    /\ hist.op = "Execute"
    /\ <<"WithMinValidArgs", 2>> \in hist.wrote
    /\ b.cobra.Args = <<MaximumNArgs(1), OnlyValidArgs>>
    /\ Runnable(b.cobra)
    /\ hist.arg = <<>>
    /\ hist.out = "run"

\* C30: NewDefaultViperCfg(name) never ends the process because of a config
\* read failure: the process ends exactly when the working directory cannot
\* be determined; otherwise the builder searches the working directory and
\* then the XDG config directory of name, in that order, a configuration is
\* loaded exactly when the first file of that name found there parses, and
\* the builder is returned whether or not the read failed.
C30_DefaultCfgNeverFatalOnRead ==
    [][(hist'.op = "NewDefaultViperCfg")
        => /\ crashed' <=> hist'.arg.getwd.err
           /\ ~crashed' =>
                /\ b'.cfg.configPaths
                      = IF hist'.arg.getwd.dir = hist'.arg.xdgdir
                        THEN <<hist'.arg.xdgdir>>
                        ELSE <<hist'.arg.getwd.dir, hist'.arg.xdgdir>>
                /\ b'.cfg.configFile = ""
                /\ b'.cfg.config = "loaded"
                     <=> \/ files[hist'.arg.getwd.dir] = "good"
                         \/ /\ files[hist'.arg.getwd.dir]
                                  \notin {"good", "malformed"}
                            /\ files[hist'.arg.xdgdir] = "good"
                /\ stderr' = <<>>]_vars

\* the working directory holds a malformed config file and the XDG directory
\* none: the builder was returned with both search paths and nothing loaded
C30_Witness ==
    /\ hist.op = "NewDefaultViperCfg"
    /\ ~crashed
    /\ files[hist.arg.getwd.dir] = "malformed"
    /\ files[hist.arg.xdgdir] = "absent"
    /\ b.cfg.configPaths = <<hist.arg.getwd.dir, hist.arg.xdgdir>>
    /\ b.cfg.config = "none"

\* C29: the installed usage/help function renders the Command it was
\* installed on and ignores the command passed to it: invoked for another
\* command it writes what it writes when invoked for the installing command,
\* and a render of the options template shows the usage line and the flags
\* of the installing command and the sections of the Command captured at
\* installation, not the usage line of the command it was invoked for.
C29_RendersInstallingCommand ==
    [][(hist'.op \in {"usageFunc", "helpFunc"})
        => /\ stdout' = RunClosure(b.cobra[hist'.op], b.cobra).stdout
           /\ stderr' = RunClosure(b.cobra[hist'.op], b.cobra).stderr
           /\ (/\ b.cobra[hist'.op].template = OptionsTemplate
               /\ ~crashed' /\ stderr' = <<>>)
                => /\ UsageLineOf(b.cobra[hist'.op].c, b.cobra)
                         \in Lines(stdout')
                   /\ UsageLineOf(b.cobra[hist'.op].c, OtherCmd)
                         \notin Lines(stdout')
                   /\ "Flags:" \in Lines(stdout') <=> HasAvailableFlags(b.cobra)
                   /\ "Options:" \in Lines(stdout')
                         <=> Len(b.cobra[hist'.op].c.Opts) > 0]_vars

\* the help function of a command that is not runnable, has no flag and was
\* given options before the template, invoked for the other command: the
\* bare usage line and the options of the installing command, no flags
C29_Witness ==
    /\ hist.op = "helpFunc"
    /\ b.cobra.helpFunc.template = OptionsTemplate
    /\ ~Runnable(b.cobra)
    /\ b.cobra.flags = <<>>
    /\ "Usage: [options]" \in Lines(stdout)
    /\ "Options:" \in Lines(stdout)
    /\ "Flags:" \notin Lines(stdout)
====
